---- MODULE Spec2Model ----
(***************************************************************************)
(* State-machine model of english_bot.py (class EnglishBot): the three     *)
(* PostgreSQL tables users / words / user_words, the three per-user        *)
(* dictionaries user_states / temp_data / quiz_data, and one action per    *)
(* telebot message handler.  A string is a sequence of one-character       *)
(* strings, so that str.strip() and str.lower() are real conversions.      *)
(* Columns that no handler reads back (username, created_at) are left out. *)
(***************************************************************************)
EXTENDS Integers, Sequences, FiniteSets, TLC

(* ------------------------------ bounds --------------------------------- *)
\* Telegram identities that send messages.
NumTelegram == 2
\* How many entries of the common_words list the model seeds.
NumSeed == 2
\* Rows the words table may hold (the seeded ones included).
MaxWords == 3
\* Cap on the answers scored in one run (the sum of all attempt_count).
MaxAttempts == 1

TelegramIds == 1..NumTelegram

(* ------------------------------ strings -------------------------------- *)
\* Python's None for an id (SERIAL ids start at 1).
None == 0

\* str.lower() on one character.
LowerChar(c) ==
    CASE c = "I" -> "i"
      [] c = "Y" -> "y"
      [] c = "A" -> "a"
      [] c = "O" -> "o"
      [] c = "U" -> "u"
      [] OTHER -> c

\* str.lower()
Lower(s) == [k \in 1..Len(s) |-> LowerChar(s[k])]

\* str.strip(): drops leading and trailing whitespace.
RECURSIVE LStrip(_)
LStrip(s) == IF s # <<>> /\ Head(s) = " " THEN LStrip(Tail(s)) ELSE s

RECURSIVE RStrip(_)
RStrip(s) ==
    IF s # <<>> /\ s[Len(s)] = " " THEN RStrip(SubSeq(s, 1, Len(s) - 1)) ELSE s

Strip(s) == RStrip(LStrip(s))

\* message.text.strip().lower()
\* Mutant of Normalize: the text as sent.
NormalizeNothing(s) == s
Normalize(s) == Lower(Strip(s))

Digits == <<"0", "1", "2", "3", "4", "5", "6", "7", "8", "9">>

IsDigit(c) == \E d \in 1..Len(Digits) : Digits[d] = c

DigitValue(c) == (CHOOSE d \in 1..Len(Digits) : Digits[d] = c) - 1

\* int() of the longest run of digits that starts at position k of s.
RECURSIVE ParseDigits(_, _, _)
ParseDigits(s, k, acc) ==
    IF k <= Len(s) /\ IsDigit(s[k])
    THEN ParseDigits(s, k + 1, acc * 10 + DigitValue(s[k]))
    ELSE acc

\* re.search(r'ID: (\d+)', text): the positions where the pattern matches.
\* The four characters "ID: " are one element of the sequence.
IdMatches(text) ==
    {k \in 1..Len(text) : text[k] = "ID: " /\ k < Len(text) /\ IsDigit(text[k + 1])}

\* int(match.group(1)) of the first match, None when there is no match.
MatchId(text) ==
    IF IdMatches(text) = {} THEN None
    ELSE LET k == CHOOSE i \in IdMatches(text) : \A j \in IdMatches(text) : i <= j
         IN  ParseDigits(text, k + 1, 0)

(* ------------------------------ seed data ------------------------------ *)
\* The fixed list of fill_common_words, transliterated, in source order.
common_words ==
    << << <<"k","r","a","s","n","y","j">>, <<"r","e","d">> >>,
       << <<"s","i","n","i","j">>,         <<"b","l","u","e">> >>,
       << <<"z","e","l","e","n","y","j">>, <<"g","r","e","e","n">> >>,
       << <<"z","h","e","l","t","y","j">>, <<"y","e","l","l","o","w">> >>,
       << <<"c","h","e","r","n","y","j">>, <<"b","l","a","c","k">> >>,
       << <<"b","e","l","y","j">>,         <<"w","h","i","t","e">> >>,
       << <<"y","a">>,                     <<"I">> >>,
       << <<"t","y">>,                     <<"y","o","u">> >>,
       << <<"o","n">>,                     <<"h","e">> >>,
       << <<"o","n","a">>,                 <<"s","h","e">> >> >>

\* The k-th seeded entry: the modelled window of the list starts at its one
\* mixed-case pair and wraps around.
SeedIndex(k) == ((k + 5) % Len(common_words)) + 1

\* The rows fill_common_words inserts into an empty words table.
SeedRows ==
    {[id |-> k,
      russian_word |-> common_words[SeedIndex(k)][1],
      english_word |-> common_words[SeedIndex(k)][2],
      is_common |-> TRUE] : k \in 1..NumSeed}

(* ------------------------------ inputs --------------------------------- *)
\* Free texts a user types (none equals a command or a button label).
FreeTexts ==
    { <<"y","a">>, <<" ","I">> }

\* Texts of the deletion keyboard's buttons, "<ru> - <en> (ID: <n>)", cut to
\* the part the handler's pattern reads.
IdTexts == { <<"(", "ID: ", Digits[n + 1], ")">> : n \in 1..(MaxWords + 1) }

Texts == FreeTexts \cup IdTexts

\* The texts sent in a state: a button of the deletion keyboard is pressed
\* only while that keyboard is shown.
TextsIn(state) == IF state = "deleting_word" THEN Texts ELSE FreeTexts

(* ------------------------------ state ---------------------------------- *)
IDLE == "idle"
ADDING_WORD_RUSSIAN == "adding_word_russian"
ADDING_WORD_ENGLISH == "adding_word_english"
DELETING_WORD == "deleting_word"
QUIZ == "quiz"

VARIABLES
    users,        \* table users: rows [id, telegram_id]
    words,        \* table words: rows [id, russian_word, english_word, is_common]
    user_words,   \* table user_words: rows [user_id, word_id, correct_count, attempt_count]
    user_states,  \* dict telegram id -> state name
    temp_data,    \* dict telegram id -> [russian |-> normalized text]
    quiz_data,    \* dict telegram id -> word id of the question asked
    threads,      \* worker threads inside a handler (SpecConc, SpecReg)
    cursor,       \* self.cursor: the rows of the latest execute not yet fetched
    last          \* the message handled last and what the handler answered

vars == <<users, words, user_words, user_states, temp_data, quiz_data, threads, cursor, last>>

store == <<users, words, user_words, threads, cursor>>
session == <<user_states, temp_data, quiz_data>>

\* Python dict operations.
Has(d, k) == k \in DOMAIN d
Get(d, k, default) == IF k \in DOMAIN d THEN d[k] ELSE default
\* Mutant of Put: dict.setdefault, an entry that exists is kept.
PutIfAbsent(d, k, v) == [x \in (DOMAIN d) \cup {k} |-> IF x \in DOMAIN d THEN d[x] ELSE v]
Put(d, k, v) == [x \in (DOMAIN d) \cup {k} |-> IF x = k THEN v ELSE d[x]]
\* Mutant of Del: the entry is left in the dict.
DelNothing(d, k) == d
\* Mutant of Del: dict.clear(), every entry is removed.
DelAll(d, k) == [x \in {} |-> d[x]]
Del(d, k) == [x \in (DOMAIN d) \ {k} |-> d[x]]
EmptyDict == [x \in {} |-> None]

\* Fields of `last`: the handler that ran, the identity it ran for, the text
\* it read, the reply it sent, the answers offered (a question), the word it
\* addressed, the count it reported, the result of its store operation,
\* whether the user_words row it addressed existed before it ran (for a
\* question: whether a question on another word was recorded), whether an
\* exception left the handler, and the statement at which the store failed.

\* The next value of a SERIAL id column (rows of users and words are never deleted).
NextId(rows) == Cardinality(rows) + 1

NoLast ==
    [handler |-> "init", tg |-> None, text |-> <<>>, reply |-> "none",
     options |-> {}, word_id |-> None, count |-> 0, ok |-> FALSE,
     had |-> FALSE, raised |-> FALSE, fault |-> "none"]

(* ------------------------- store operations ---------------------------- *)
\* A store operation takes the tables it reads and the statement `f` at which
\* the store fails ("none": no failure) and yields the tables it leaves and
\* what it returns.  Each cursor.execute is one atomic statement (autocommit).

FaultPoints ==
    {"none",
     "register_user.select", "register_user.insert_user", "register_user.enroll",
     "get_user_id", "get_random_word", "get_options", "get_user_words",
     "add_word.select", "add_word.insert_word", "add_word.insert_user_word",
     "add_word.count", "delete_word", "select_correct_answer", "update_word_stats"}

\* A fresh user_words row (both counters DEFAULT 0).
NewUserWord(user_id, word_id) ==
    [user_id |-> user_id, word_id |-> word_id, correct_count |-> 0, attempt_count |-> 0]

\* SELECT id FROM users WHERE telegram_id = %s
UsersByTelegram(U, telegram_id) == {u \in U : u.telegram_id = telegram_id}

\* INSERT INTO user_words (user_id, word_id) SELECT %s, id FROM words WHERE is_common = TRUE
EnrollCommon(UW, W, user_id) ==
    UW \cup {NewUserWord(user_id, w.id) : w \in {x \in W : x.is_common}}

register_user(U, UW, W, telegram_id, f) ==
    LET found == UsersByTelegram(U, telegram_id)
        user_id == NextId(U)
        U1 == U \cup {[id |-> user_id, telegram_id |-> telegram_id]}
    IN  IF f = "register_user.select"
        THEN [users |-> U, user_words |-> UW, id |-> None]
        ELSE IF found # {}
        THEN [users |-> U, user_words |-> UW, id |-> (CHOOSE u \in found : TRUE).id]
        ELSE IF f = "register_user.insert_user"
        THEN [users |-> U, user_words |-> UW, id |-> None]
        ELSE IF f = "register_user.enroll"
        THEN [users |-> U1, user_words |-> UW, id |-> None]
        ELSE [users |-> U1, user_words |-> EnrollCommon(UW, W, user_id), id |-> user_id]

\* Mutant of get_user_id: an unknown identity is given its telegram id as id.
get_user_id_unchecked(U, telegram_id, f) ==
    LET found == UsersByTelegram(U, telegram_id)
    IN  IF f = "get_user_id" THEN None
        ELSE IF found = {} THEN telegram_id
        ELSE (CHOOSE u \in found : TRUE).id

get_user_id(U, telegram_id, f) ==
    LET found == UsersByTelegram(U, telegram_id)
    IN  IF f = "get_user_id" \/ found = {} THEN None
        ELSE (CHOOSE u \in found : TRUE).id

\* SELECT id FROM words WHERE russian_word = %s AND english_word = %s
WordsByPair(W, russian_word, english_word) ==
    {w \in W : w.russian_word = russian_word /\ w.english_word = english_word}

\* Mutant of InsertUserWord: the insert without its ON CONFLICT clause and
\* without the table's UNIQUE constraint.
InsertUserWordAlways(UW, user_id, word_id) ==
    UW \cup {NewUserWord(user_id, word_id)}

\* Mutant of InsertUserWord: on a conflict the existing row is replaced by a
\* fresh one (ON CONFLICT DO UPDATE resetting both counters).
InsertUserWordReset(UW, user_id, word_id) ==
    {uw \in UW : ~(uw.user_id = user_id /\ uw.word_id = word_id)}
        \cup {NewUserWord(user_id, word_id)}

\* INSERT INTO user_words ... ON CONFLICT (user_id, word_id) DO NOTHING
InsertUserWord(UW, user_id, word_id) ==
    IF \E uw \in UW : uw.user_id = user_id /\ uw.word_id = word_id
    THEN UW
    ELSE UW \cup {NewUserWord(user_id, word_id)}

\* SELECT COUNT(*) FROM user_words WHERE user_id = %s
CountUserWords(UW, user_id) == Cardinality({uw \in UW : uw.user_id = user_id})

\* add_word once the id of the word row is known.
AddWordTail(W, UW, user_id, word_id, f) ==
    IF f = "add_word.insert_user_word"
    THEN [words |-> W, user_words |-> UW, ok |-> FALSE, count |-> 0, word_id |-> word_id]
    ELSE IF f = "add_word.count"
    THEN [words |-> W, user_words |-> InsertUserWord(UW, user_id, word_id),
          ok |-> FALSE, count |-> 0, word_id |-> word_id]
    ELSE [words |-> W, user_words |-> InsertUserWord(UW, user_id, word_id),
          ok |-> TRUE,
          count |-> CountUserWords(InsertUserWord(UW, user_id, word_id), user_id),
          word_id |-> word_id]

\* The outcomes of add_word: fetchone() returns any one of the matching rows.
add_word(W, UW, user_id, russian_word, english_word, f) ==
    LET found == WordsByPair(W, russian_word, english_word)
        word_id == NextId(W)
        W1 == W \cup {[id |-> word_id, russian_word |-> russian_word,
                       english_word |-> english_word, is_common |-> FALSE]}
    IN  IF f = "add_word.select"
        THEN {[words |-> W, user_words |-> UW, ok |-> FALSE, count |-> 0, word_id |-> None]}
        ELSE IF found = {}
        THEN IF f = "add_word.insert_word"
             THEN {[words |-> W, user_words |-> UW, ok |-> FALSE, count |-> 0,
                    word_id |-> None]}
             ELSE {AddWordTail(W1, UW, user_id, word_id, f)}
        ELSE {AddWordTail(W, UW, user_id, w.id, f) : w \in found}

\* Mutant of delete_word: the two parameters of the DELETE swapped.
delete_word_swapped(UW, user_id, word_id, f) ==
    IF f = "delete_word"
    THEN [user_words |-> UW, ok |-> FALSE]
    ELSE [user_words |-> {uw \in UW : ~(uw.user_id = word_id /\ uw.word_id = user_id)},
          ok |-> TRUE]

\* Mutant of delete_word: the DELETE without its user_id condition.
delete_word_any_user(UW, user_id, word_id, f) ==
    IF f = "delete_word"
    THEN [user_words |-> UW, ok |-> FALSE]
    ELSE [user_words |-> {uw \in UW : uw.word_id # word_id}, ok |-> TRUE]

\* DELETE FROM user_words WHERE user_id = %s AND word_id = %s
delete_word(UW, user_id, word_id, f) ==
    IF f = "delete_word"
    THEN [user_words |-> UW, ok |-> FALSE]
    ELSE [user_words |-> {uw \in UW : ~(uw.user_id = user_id /\ uw.word_id = word_id)},
          ok |-> TRUE]

\* SELECT w.* FROM words w JOIN user_words uw ON w.id = uw.word_id WHERE uw.user_id = %s
JoinUserWords(W, UW, user_id) ==
    {w \in W : \E uw \in UW : uw.user_id = user_id /\ uw.word_id = w.id}

get_user_words(W, UW, user_id, f) ==
    IF f = "get_user_words" THEN {} ELSE JoinUserWords(W, UW, user_id)

\* Mutant of get_random_word: the SELECT without its JOIN on user_words.
get_random_word_any(W, UW, user_id, f) ==
    IF f = "get_random_word" THEN {} ELSE W

\* The rows ORDER BY RANDOM() LIMIT 1 may return; the empty set stands for None.
get_random_word(W, UW, user_id, f) ==
    IF f = "get_random_word" THEN {} ELSE JoinUserWords(W, UW, user_id)

\* ORDER BY RANDOM() LIMIT n: any n of the rows, all of them when there are fewer.
RandomLimit(rows, n) ==
    {S \in SUBSET rows : Cardinality(S) = IF Cardinality(rows) < n THEN Cardinality(rows) ELSE n}

\* The user's other words a question may take its first answers from.
OtherUserWords(W, UW, user_id, correct_word_id) ==
    {w \in JoinUserWords(W, UW, user_id) : w.id # correct_word_id}

\* The rows the top-up query ranges over.
TopUpPool(W, correct_word_id, correct_answer) ==
    {w \in W : w.id # correct_word_id /\ w.english_word # correct_answer}

\* [correct_answer] + other_answers as random.shuffle leaves it, up to the
\* order: the answers offered, each tagged with the query it came from and
\* the row it was read from, so that equal texts from two rows stay apart.
Shuffled(correct_answer, own, extra) ==
    {[from |-> "correct", id |-> None, text |-> correct_answer]}
    \cup {[from |-> "own", id |-> w.id, text |-> w.english_word] : w \in own}
    \cup {[from |-> "extra", id |-> w.id, text |-> w.english_word] : w \in extra}

\* The option lists get_options may return for a word row that exists.
get_options(W, UW, correct_word_id, user_id, f) ==
    LET correct_answer == (CHOOSE w \in W : w.id = correct_word_id).english_word
        others == OtherUserWords(W, UW, user_id, correct_word_id)
    IN  IF f = "get_options" \/ ~(\E w \in W : w.id = correct_word_id)
        THEN {{}}
        ELSE UNION {
                 IF Cardinality(own) < 3
                 THEN { Shuffled(correct_answer, own, extra) :
                          extra \in RandomLimit(TopUpPool(W, correct_word_id, correct_answer),
                                                3 - Cardinality(own)) }
                 ELSE {Shuffled(correct_answer, own, {})}
                 : own \in RandomLimit(others, 3) }

\* Mutant of update_word_stats: the UPDATE without its word_id condition.
update_word_stats_all_words(UW, user_id, word_id, is_correct, f) ==
    IF f = "update_word_stats" THEN UW
    ELSE {IF uw.user_id = user_id
          THEN [uw EXCEPT !.attempt_count = @ + 1,
                          !.correct_count = @ + (IF is_correct THEN 1 ELSE 0)]
          ELSE uw : uw \in UW}

\* Mutant of update_word_stats: the two SET clauses exchanged.
update_word_stats_exchanged(UW, user_id, word_id, is_correct, f) ==
    IF f = "update_word_stats" THEN UW
    ELSE {IF uw.user_id = user_id /\ uw.word_id = word_id
          THEN [uw EXCEPT !.correct_count = @ + 1,
                          !.attempt_count = @ + (IF is_correct THEN 1 ELSE 0)]
          ELSE uw : uw \in UW}

\* UPDATE user_words SET attempt_count = attempt_count + 1, correct_count = correct_count + %s
update_word_stats(UW, user_id, word_id, is_correct, f) ==
    IF f = "update_word_stats" THEN UW
    ELSE {IF uw.user_id = user_id /\ uw.word_id = word_id
          THEN [uw EXCEPT !.attempt_count = @ + 1,
                          !.correct_count = @ + (IF is_correct THEN 1 ELSE 0)]
          ELSE uw : uw \in UW}

(* ------------------------------ handlers ------------------------------- *)
\* One action per message handler; `t` is message.from_user.id, `f` the
\* statement at which the store fails during the handler.  A handler takes a
\* failure only at a statement it executes: a failure armed at any other
\* statement is the run with f = "none".

Said(handler, t, reply) ==
    [NoLast EXCEPT !.handler = handler, !.tg = t, !.reply = reply]

\* /start
handle_start(t, f) ==
    /\ f \in IF UsersByTelegram(users, t) # {}
              THEN {"none", "register_user.select"}
              ELSE {"none", "register_user.select", "register_user.insert_user",
                    "register_user.enroll"}
    /\ LET r == register_user(users, user_words, words, t, f)
       IN  /\ users' = r.users
           /\ user_words' = r.user_words
           /\ IF r.id # None
              THEN /\ user_states' = Put(user_states, t, IDLE)
                   /\ last' = [Said("start", t, "welcome") EXCEPT !.ok = TRUE, !.fault = f]
              ELSE /\ user_states' = user_states
                   /\ last' = [Said("start", t, "register_failed") EXCEPT !.fault = f]
    /\ UNCHANGED <<words, temp_data, quiz_data, threads, cursor>>

\* /help
handle_help(t) ==
    /\ last' = Said("help", t, "help")
    /\ UNCHANGED <<store, session>>

\* button "Viktorina"
handle_quiz(t, f) ==
    /\ LET db_user_id == get_user_id(users, t, f)
           candidates == get_random_word(words, user_words, db_user_id, f)
       IN  IF db_user_id = None
           THEN /\ f \in {"none", "get_user_id"}
                /\ last' = [Said("quiz", t, "use_start") EXCEPT !.fault = f]
                /\ UNCHANGED <<store, session>>
           ELSE IF candidates = {}
           THEN /\ f \in {"none", "get_random_word"}
                /\ last' = [Said("quiz", t, "no_words") EXCEPT !.fault = f]
                /\ UNCHANGED <<store, session>>
           ELSE \E word \in candidates :
                \E options \in get_options(words, user_words, word.id, db_user_id, f) :
                    /\ f \in {"none", "get_options"}
                    /\ quiz_data' = Put(quiz_data, t, word.id)
                    /\ user_states' = Put(user_states, t, QUIZ)
                    /\ last' = [Said("quiz", t, "question") EXCEPT
                                    !.options = options, !.word_id = word.id,
                                    !.had = Get(quiz_data, t, word.id) # word.id,
                                    !.ok = TRUE, !.fault = f]
                    /\ UNCHANGED <<store, temp_data>>

\* button "Dobavit slovo"
handle_add_word(t) ==
    /\ user_states' = Put(user_states, t, ADDING_WORD_RUSSIAN)
    /\ last' = Said("add_word", t, "ask_russian")
    /\ UNCHANGED <<store, temp_data, quiz_data>>

\* button "Udalit slovo"
handle_delete_word(t, f) ==
    /\ LET db_user_id == get_user_id(users, t, f)
           rows == get_user_words(words, user_words, db_user_id, f)
       IN  IF db_user_id = None
           THEN /\ f \in {"none", "get_user_id"}
                /\ last' = [Said("delete_word", t, "use_start") EXCEPT !.fault = f]
                /\ UNCHANGED <<store, session>>
           ELSE IF rows = {}
           THEN /\ f \in {"none", "get_user_words"}
                /\ last' = [Said("delete_word", t, "nothing_to_delete") EXCEPT !.fault = f]
                /\ UNCHANGED <<store, session>>
           ELSE /\ f = "none"
                /\ user_states' = Put(user_states, t, DELETING_WORD)
                /\ last' = [Said("delete_word", t, "choose_word") EXCEPT
                                !.count = Cardinality(rows), !.ok = TRUE, !.fault = f]
                /\ UNCHANGED <<store, temp_data, quiz_data>>

\* button "Spisok slov"
handle_words_list(t, f) ==
    /\ f \in {"none", "get_user_id", "get_user_words"}
    /\ f = "get_user_words" => UsersByTelegram(users, t) # {}
    /\ LET db_user_id == get_user_id(users, t, f)
           rows == get_user_words(words, user_words, db_user_id, f)
       IN  last' = IF db_user_id = None
                   THEN [Said("words_list", t, "use_start") EXCEPT !.fault = f]
                   ELSE IF rows = {}
                   THEN [Said("words_list", t, "no_words") EXCEPT !.fault = f]
                   ELSE [Said("words_list", t, "words_list") EXCEPT
                             !.count = Cardinality(rows), !.ok = TRUE, !.fault = f]
    /\ UNCHANGED <<store, session>>

\* Mutant of handle_cancel: the pending term is dropped, the state is kept.
handle_cancel_keeps_state(t) ==
    /\ temp_data' = Del(temp_data, t)
    /\ last' = Said("cancel", t, "cancelled")
    /\ UNCHANGED <<store, user_states, quiz_data>>

\* button "Otmena"
handle_cancel(t) ==
    /\ user_states' = Put(user_states, t, IDLE)
    /\ temp_data' = Del(temp_data, t)
    /\ last' = Said("cancel", t, "cancelled")
    /\ UNCHANGED <<store, quiz_data>>

(* -------------------- handler of every other message ------------------- *)
\* The bound on the words table: add_word is called for a pair that has no
\* row only while the table has room.
HasRoom(W, russian_word, english_word) ==
    Cardinality(W) < MaxWords \/ WordsByPair(W, russian_word, english_word) # {}

\* Whether user_words holds the row (user_id, word_id).
HasEntry(UW, user_id, word_id) ==
    \E uw \in UW : uw.user_id = user_id /\ uw.word_id = word_id

\* Whether the user's vocabulary holds a word with exactly this pair.
Owns(W, UW, user_id, russian_word, english_word) ==
    \E w \in WordsByPair(W, russian_word, english_word) : HasEntry(UW, user_id, w.id)

\* state == ADDING_WORD_RUSSIAN
MessagesAddingRussian(t, text, f) ==
    /\ f = "none"
    /\ temp_data' = Put(temp_data, t, [russian |-> Normalize(text)])
    /\ user_states' = Put(user_states, t, ADDING_WORD_ENGLISH)
    /\ last' = [Said("messages", t, "ask_english") EXCEPT !.text = text, !.fault = f]
    /\ UNCHANGED <<store, quiz_data>>

\* Mutant of MessagesAddingEnglish: the state reset and the removal of the
\* pending term happen only when add_word reports success.
MessagesAddingEnglishOnSuccess(t, text, db_user_id, f) ==
    /\ Has(temp_data, t)
    /\ \E r \in add_word(words, user_words, db_user_id,
                         temp_data[t].russian, Normalize(text), f) :
           /\ f \in {"none", "add_word.select", "add_word.insert_word",
                     "add_word.insert_user_word", "add_word.count"}
           /\ f = "add_word.insert_word"
                  => WordsByPair(words, temp_data[t].russian, Normalize(text)) = {}
           /\ HasRoom(words, temp_data[t].russian, Normalize(text))
           /\ words' = r.words
           /\ user_words' = r.user_words
           /\ user_states' = IF r.ok THEN Put(user_states, t, IDLE) ELSE user_states
           /\ temp_data' = IF r.ok THEN Del(temp_data, t) ELSE temp_data
           /\ last' = [Said("messages", t, IF r.ok THEN "added" ELSE "add_failed") EXCEPT
                           !.text = text, !.count = r.count, !.ok = r.ok, !.fault = f,
                           !.word_id = r.word_id,
                           !.had = Owns(words, user_words, db_user_id,
                                        temp_data[t].russian, Normalize(text))]
           /\ UNCHANGED <<users, quiz_data, threads, cursor>>

\* state == ADDING_WORD_ENGLISH
MessagesAddingEnglish(t, text, db_user_id, f) ==
    IF ~Has(temp_data, t)
    THEN \* self.temp_data[user_id] raises KeyError
         /\ f = "none"
         /\ last' = [Said("messages", t, "none") EXCEPT
                         !.text = text, !.raised = TRUE, !.fault = f]
         /\ UNCHANGED <<store, session>>
    ELSE \E r \in add_word(words, user_words, db_user_id,
                           temp_data[t].russian, Normalize(text), f) :
             /\ f \in {"none", "add_word.select", "add_word.insert_word",
                       "add_word.insert_user_word", "add_word.count"}
             /\ f = "add_word.insert_word"
                    => WordsByPair(words, temp_data[t].russian, Normalize(text)) = {}
             /\ HasRoom(words, temp_data[t].russian, Normalize(text))
             /\ words' = r.words
             /\ user_words' = r.user_words
             /\ user_states' = Put(user_states, t, IDLE)
             /\ temp_data' = Del(temp_data, t)
             /\ last' = [Said("messages", t, IF r.ok THEN "added" ELSE "add_failed") EXCEPT
                             !.text = text, !.count = r.count, !.ok = r.ok, !.fault = f,
                             !.word_id = r.word_id,
                             !.had = Owns(words, user_words, db_user_id,
                                          temp_data[t].russian, Normalize(text))]
             /\ UNCHANGED <<users, quiz_data, threads, cursor>>

\* state == DELETING_WORD
MessagesDeleting(t, text, db_user_id, f) ==
    LET word_id == MatchId(text)
        r == delete_word(user_words, db_user_id, word_id, f)
    IN  IF IdMatches(text) # {}
        THEN /\ f \in {"none", "delete_word"}
             /\ user_words' = r.user_words
             /\ user_states' = Put(user_states, t, IDLE)
             /\ last' = [Said("messages", t, IF r.ok THEN "deleted" ELSE "delete_failed") EXCEPT
                             !.text = text, !.word_id = word_id, !.ok = r.ok, !.fault = f,
                             !.had = HasEntry(user_words, db_user_id, word_id)]
             /\ UNCHANGED <<users, words, temp_data, quiz_data, threads, cursor>>
        ELSE /\ f = "none"
             /\ last' = [Said("messages", t, "bad_format") EXCEPT !.text = text, !.fault = f]
             /\ UNCHANGED <<store, session>>

RECURSIVE SumAttempts(_)
SumAttempts(rows) ==
    IF rows = {} THEN 0
    ELSE LET r == CHOOSE x \in rows : TRUE
         IN  r.attempt_count + SumAttempts(rows \ {r})

TotalAttempts(UW) == SumAttempts(UW)

\* Mutant of IsCorrect: the text as sent against the term as stored.
IsCorrectExact(text, english_word) == text = english_word

\* user_answer = message.text.strip().lower(); correct_answer = <english_word>.lower();
\* is_correct = user_answer.lower() == correct_answer.lower()
IsCorrect(text, english_word) ==
    LET user_answer == Normalize(text)
        correct_answer == Lower(english_word)
    IN  Lower(user_answer) = Lower(correct_answer)

\* state == QUIZ
MessagesQuiz(t, text, db_user_id, f) ==
    LET word_id == Get(quiz_data, t, None)
        rows == {w \in words : w.id = word_id}
        is_correct == IsCorrect(text, (CHOOSE w \in rows : TRUE).english_word)
    IN  IF word_id = None
        THEN /\ f = "none"
             /\ last' = [Said("messages", t, "quiz_error") EXCEPT !.text = text, !.fault = f]
             /\ UNCHANGED <<store, session>>
        ELSE IF f = "select_correct_answer" \/ rows = {}
        THEN \* the SELECT raises, or fetchone() is None: not caught by the handler
             /\ f \in {"none", "select_correct_answer"}
             /\ last' = [Said("messages", t, "none") EXCEPT
                             !.text = text, !.word_id = word_id, !.raised = TRUE, !.fault = f]
             /\ UNCHANGED <<store, session>>
        ELSE /\ f \in {"none", "update_word_stats"}
             /\ TotalAttempts(user_words) < MaxAttempts
             /\ user_words' = update_word_stats(user_words, db_user_id, word_id, is_correct, f)
             /\ user_states' = Put(user_states, t, IDLE)
             /\ quiz_data' = Del(quiz_data, t)
             /\ last' = [Said("messages", t, IF is_correct THEN "correct" ELSE "wrong") EXCEPT
                             !.text = text, !.word_id = word_id, !.ok = is_correct, !.fault = f]
             /\ UNCHANGED <<users, words, temp_data, threads, cursor>>

handle_messages(t, text, f) ==
    /\ LET db_user_id == get_user_id(users, t, f)
           state == Get(user_states, t, IDLE)
       IN  IF db_user_id = None
           THEN /\ f \in {"none", "get_user_id"}
                /\ last' = [Said("messages", t, "use_start") EXCEPT !.fault = f]
                /\ UNCHANGED <<store, session>>
           ELSE IF state = ADDING_WORD_RUSSIAN THEN MessagesAddingRussian(t, text, f)
           ELSE IF state = ADDING_WORD_ENGLISH THEN MessagesAddingEnglish(t, text, db_user_id, f)
           ELSE IF state = DELETING_WORD THEN MessagesDeleting(t, text, db_user_id, f)
           ELSE IF state = QUIZ THEN MessagesQuiz(t, text, db_user_id, f)
           ELSE /\ f = "none"
                /\ last' = [Said("messages", t, "choose_action") EXCEPT !.fault = f]
                /\ UNCHANGED <<store, session>>

(* --------------------------- specifications ---------------------------- *)
\* The worker threads telebot hands messages to.
NumThreads == 2
Threads == 1..NumThreads
IdleThread == [pc |-> "idle", tg |-> None, text |-> <<>>, user_id |-> None,
               russian |-> <<>>, english |-> <<>>, word_id |-> None, had |-> FALSE]

\* self.cursor after a statement that returns no rows to fetch (an INSERT
\* without RETURNING, or a statement that failed), and after a query.
NoResult == [has |-> FALSE, rows |-> <<>>]
Result(rows) == [has |-> TRUE, rows |-> rows]

\* After __init__: tables created and seeded, empty dictionaries.
Init ==
    /\ users = {}
    /\ words = SeedRows
    /\ user_words = {}
    /\ user_states = EmptyDict
    /\ temp_data = EmptyDict
    /\ quiz_data = EmptyDict
    /\ threads = [p \in Threads |-> IdleThread]
    /\ cursor = NoResult
    /\ last = NoLast

\* The texts a user in the state of identity t may send.
TextsOf(t) == TextsIn(Get(user_states, t, IDLE))

\* One identity talks to the bot, one message handled at a time; the store
\* never fails.
Solo == {1}

Next ==
    \E t \in Solo :
        \/ handle_start(t, "none")
        \/ handle_help(t)
        \/ handle_quiz(t, "none")
        \/ handle_add_word(t)
        \/ handle_delete_word(t, "none")
        \/ handle_words_list(t, "none")
        \/ handle_cancel(t)
        \/ \E text \in TextsOf(t) : handle_messages(t, text, "none")

Spec == Init /\ [][Next]_vars

\* The same, with any one statement of the store failing during a handler.
NextFault ==
    \E t \in Solo :
        \/ \E f \in FaultPoints : handle_start(t, f)
        \/ \E f \in FaultPoints : handle_quiz(t, f)
        \/ handle_add_word(t)
        \/ \E f \in FaultPoints : handle_delete_word(t, f)
        \/ \E f \in FaultPoints : handle_words_list(t, f)
        \/ handle_cancel(t)
        \/ \E f \in FaultPoints, text \in TextsOf(t) : handle_messages(t, text, f)

SpecFault == Init /\ [][NextFault]_vars

\* Every identity talks to the bot, one message handled at a time; the
\* dialogue that adds a word is left to Spec.
NextTwo ==
    \E t \in TelegramIds :
        \/ handle_start(t, "none")
        \/ handle_quiz(t, "none")
        \/ handle_delete_word(t, "none")
        \/ handle_cancel(t)
        \/ \E text \in TextsOf(t) : handle_messages(t, text, "none")

SpecTwo == Init /\ [][NextTwo]_vars

\* A second identity opens its own session (registration, a question, the
\* first step of the add-word dialogue) before the first identity registers;
\* the first identity then sends, next to that session, every kind of message
\* whose handler writes to the dicts or the tables.
Other == TelegramIds \ Solo

SoloUnregistered == \A s \in Solo : UsersByTelegram(users, s) = {}

OtherStart(t) == SoloUnregistered /\ handle_start(t, "none")

OtherQuiz(t) == SoloUnregistered /\ handle_quiz(t, "none")

OtherAddWord(t) == SoloUnregistered /\ handle_add_word(t)

OtherMessages(t, text) ==
    /\ SoloUnregistered
    /\ Get(user_states, t, IDLE) = ADDING_WORD_RUSSIAN
    /\ handle_messages(t, text, "none")

NextBeside ==
    \/ \E t \in Other : OtherStart(t)
    \/ \E t \in Other : OtherQuiz(t)
    \/ \E t \in Other : OtherAddWord(t)
    \/ \E t \in Other : \E text \in TextsOf(t) : OtherMessages(t, text)
    \/ \E t \in Solo : handle_start(t, "none")
    \/ \E t \in Solo : handle_quiz(t, "none")
    \/ \E t \in Solo : handle_add_word(t)
    \/ \E t \in Solo : handle_delete_word(t, "none")
    \/ \E t \in Solo : handle_cancel(t)
    \/ \E t \in Solo : \E text \in TextsOf(t) : handle_messages(t, text, "none")

SpecBeside == Init /\ [][NextBeside]_vars

(* ----------------- add_word on two worker threads --------------------- *)
\* A message in state ADDING_WORD_ENGLISH handled by worker thread p, one
\* statement of add_word per step, so that two calls interleave.

FreeThread == \E p \in Threads : threads[p].pc = "idle"

\* _handle_messages up to the call of add_word.
EnterAddWord(p, t, text) ==
    /\ threads[p].pc = "idle"
    /\ get_user_id(users, t, "none") # None
    /\ Get(user_states, t, IDLE) = ADDING_WORD_ENGLISH
    /\ Has(temp_data, t)
    /\ HasRoom(words, temp_data[t].russian, Normalize(text))
    /\ threads' = [threads EXCEPT ![p] =
                      [pc |-> "select", tg |-> t, text |-> text,
                       user_id |-> get_user_id(users, t, "none"),
                       russian |-> temp_data[t].russian, english |-> Normalize(text),
                       word_id |-> None,
                       had |-> Owns(words, user_words, get_user_id(users, t, "none"),
                                    temp_data[t].russian, Normalize(text))]]
    /\ UNCHANGED <<users, words, user_words, session, cursor, last>>

\* SELECT id FROM words WHERE russian_word = %s AND english_word = %s; fetchone()
AddWordSelect(p) ==
    /\ threads[p].pc = "select"
    /\ LET found == WordsByPair(words, threads[p].russian, threads[p].english)
       IN  IF found = {}
           THEN threads' = [threads EXCEPT ![p].pc = "insert_word"]
           ELSE \E w \in found :
                    threads' = [threads EXCEPT ![p].pc = "insert_user_word",
                                               ![p].word_id = w.id]
    /\ UNCHANGED <<users, words, user_words, session, cursor, last>>

\* INSERT INTO words (...) VALUES (%s, %s, FALSE) RETURNING id
AddWordInsertWord(p) ==
    /\ threads[p].pc = "insert_word"
    /\ words' = words \cup {[id |-> NextId(words),
                             russian_word |-> threads[p].russian,
                             english_word |-> threads[p].english,
                             is_common |-> FALSE]}
    /\ threads' = [threads EXCEPT ![p].pc = "insert_user_word",
                                  ![p].word_id = NextId(words)]
    /\ UNCHANGED <<users, user_words, session, cursor, last>>

\* INSERT INTO user_words ... ON CONFLICT DO NOTHING
AddWordInsertUserWord(p) ==
    /\ threads[p].pc = "insert_user_word"
    /\ user_words' = InsertUserWord(user_words, threads[p].user_id, threads[p].word_id)
    /\ threads' = [threads EXCEPT ![p].pc = "count"]
    /\ UNCHANGED <<users, words, session, cursor, last>>

\* SELECT COUNT(*), the return of add_word, and the rest of _handle_messages:
\* the reply, the state reset, and del self.temp_data[user_id], which raises
\* KeyError when another handler has removed the entry.
AddWordReturn(p) ==
    /\ threads[p].pc = "count"
    /\ user_states' = Put(user_states, threads[p].tg, IDLE)
    /\ temp_data' = Del(temp_data, threads[p].tg)
    /\ last' = [Said("messages", threads[p].tg, "added") EXCEPT
                    !.text = threads[p].text,
                    !.count = CountUserWords(user_words, threads[p].user_id),
                    !.ok = TRUE, !.word_id = threads[p].word_id,
                    !.had = threads[p].had,
                    !.raised = ~Has(temp_data, threads[p].tg)]
    /\ threads' = [threads EXCEPT ![p] = IdleThread]
    /\ UNCHANGED <<users, words, user_words, quiz_data, cursor>>

\* The handlers that run in one step, each on a free worker thread.
StartOnThread(t) == FreeThread /\ handle_start(t, "none")

AddWordButtonOnThread(t) == FreeThread /\ handle_add_word(t)

MessagesOnThread(t, text) ==
    /\ FreeThread
    /\ Get(user_states, t, IDLE) # ADDING_WORD_ENGLISH
    /\ handle_messages(t, text, "none")

NextConc ==
    \/ \E t \in Solo : StartOnThread(t)
    \/ \E t \in Solo : AddWordButtonOnThread(t)
    \/ \E t \in Solo, text \in FreeTexts : MessagesOnThread(t, text)
    \/ \E p \in Threads, t \in Solo, text \in FreeTexts : EnterAddWord(p, t, text)
    \/ \E p \in Threads : AddWordSelect(p)
    \/ \E p \in Threads : AddWordInsertWord(p)
    \/ \E p \in Threads : AddWordInsertUserWord(p)
    \/ \E p \in Threads : AddWordReturn(p)

SpecConc == Init /\ [][NextConc]_vars

(* ------------- register_user on two worker threads -------------------- *)
\* /start handled by worker thread p, one cursor call of register_user per
\* step.  All threads share self.cursor: execute replaces the rows it holds,
\* fetchone takes the first of them, whichever thread's query produced them.

\* A set of at most one id as the rows of a result.
RowsOf(ids) == IF ids = {} THEN <<>> ELSE <<CHOOSE i \in ids : TRUE>>

\* register_user leaves through its except clause and returns None.
RegRaise(p) == [threads EXCEPT ![p].pc = "reg_return", ![p].user_id = None]

\* _handle_start up to the call of register_user.
RegEnter(p, t) ==
    /\ threads[p].pc = "idle"
    /\ threads' = [threads EXCEPT ![p] = [IdleThread EXCEPT !.pc = "reg_select", !.tg = t]]
    /\ UNCHANGED <<users, words, user_words, session, cursor, last>>

\* cursor.execute("SELECT id FROM users WHERE telegram_id = %s")
RegSelect(p) ==
    /\ threads[p].pc = "reg_select"
    /\ cursor' = Result(RowsOf({u.id : u \in UsersByTelegram(users, threads[p].tg)}))
    /\ threads' = [threads EXCEPT ![p].pc = "reg_fetch_user"]
    /\ UNCHANGED <<users, words, user_words, session, last>>

\* user = cursor.fetchone(); if not user: ... else: return user[0]
RegFetchUser(p) ==
    /\ threads[p].pc = "reg_fetch_user"
    /\ IF ~cursor.has
       THEN threads' = RegRaise(p) /\ cursor' = cursor
       ELSE IF cursor.rows = <<>>
       THEN threads' = [threads EXCEPT ![p].pc = "reg_insert"] /\ cursor' = cursor
       ELSE /\ threads' = [threads EXCEPT ![p].pc = "reg_return",
                                          ![p].user_id = Head(cursor.rows)]
            /\ cursor' = Result(Tail(cursor.rows))
    /\ UNCHANGED <<users, words, user_words, session, last>>

\* cursor.execute("INSERT INTO users (telegram_id, username) ... RETURNING id");
\* telegram_id is UNIQUE, and a statement that fails may or may not leave the
\* rows of the statement before it.
RegInsertUser(p) ==
    /\ threads[p].pc = "reg_insert"
    /\ IF UsersByTelegram(users, threads[p].tg) # {}
       THEN /\ threads' = RegRaise(p)
            /\ cursor' \in {cursor, NoResult}
            /\ users' = users
       ELSE /\ users' = users \cup {[id |-> NextId(users), telegram_id |-> threads[p].tg]}
            /\ cursor' = Result(<<NextId(users)>>)
            /\ threads' = [threads EXCEPT ![p].pc = "reg_fetch_id"]
    /\ UNCHANGED <<words, user_words, session, last>>

\* user_id = cursor.fetchone()[0]
RegFetchId(p) ==
    /\ threads[p].pc = "reg_fetch_id"
    /\ IF ~cursor.has \/ cursor.rows = <<>>
       THEN threads' = RegRaise(p) /\ cursor' = cursor
       ELSE /\ threads' = [threads EXCEPT ![p].pc = "reg_enroll",
                                          ![p].user_id = Head(cursor.rows)]
            /\ cursor' = Result(Tail(cursor.rows))
    /\ UNCHANGED <<users, words, user_words, session, last>>

\* cursor.execute("INSERT INTO user_words (user_id, word_id) SELECT %s, id FROM
\* words WHERE is_common = TRUE"); UNIQUE(user_id, word_id) fails the statement.
RegEnroll(p) ==
    /\ threads[p].pc = "reg_enroll"
    /\ IF \E w \in words : w.is_common /\ HasEntry(user_words, threads[p].user_id, w.id)
       THEN /\ threads' = RegRaise(p)
            /\ user_words' = user_words
       ELSE /\ user_words' = EnrollCommon(user_words, words, threads[p].user_id)
            /\ threads' = [threads EXCEPT ![p].pc = "reg_return"]
    /\ cursor' = NoResult
    /\ UNCHANGED <<users, words, session, last>>

\* The return of register_user and the rest of _handle_start.
RegReturn(p) ==
    /\ threads[p].pc = "reg_return"
    /\ IF threads[p].user_id # None
       THEN /\ user_states' = Put(user_states, threads[p].tg, IDLE)
            /\ last' = [Said("start", threads[p].tg, "welcome") EXCEPT !.ok = TRUE]
       ELSE /\ user_states' = user_states
            /\ last' = Said("start", threads[p].tg, "register_failed")
    /\ threads' = [threads EXCEPT ![p] = IdleThread]
    /\ UNCHANGED <<users, words, user_words, temp_data, quiz_data, cursor>>

NextReg ==
    \/ \E p \in Threads, t \in TelegramIds : RegEnter(p, t)
    \/ \E p \in Threads : RegSelect(p)
    \/ \E p \in Threads : RegFetchUser(p)
    \/ \E p \in Threads : RegInsertUser(p)
    \/ \E p \in Threads : RegFetchId(p)
    \/ \E p \in Threads : RegEnroll(p)
    \/ \E p \in Threads : RegReturn(p)

SpecReg == Init /\ [][NextReg]_vars

(* ------------------------------- claims -------------------------------- *)
\* The users row of the identity the last handler ran for (None: no row).
LastUser == get_user_id(users, last.tg, "none")

\* The texts of a set of offered answers.
OptionTexts(options) == {o.text : o \in options}

\* C1: every question's answers hold the correct target term exactly once
\* and no two equal texts.
C1_OptionsDistinct ==
    (last.handler = "quiz" /\ last.reply = "question") =>
        LET correct == (CHOOSE w \in words : w.id = last.word_id).english_word
        IN  /\ Cardinality({o \in last.options : o.text = correct}) = 1
            /\ Cardinality(OptionTexts(last.options)) = Cardinality(last.options)

\* C2: the deletion handler reports success only when a user_words row of
\* the user for the chosen word existed and was deleted (delete_word returns
\* true exactly then).
C2_DeleteReportsRemoval ==
    [][(last'.handler = "messages" /\ last'.reply \in {"deleted", "delete_failed"}) =>
         (last'.ok <=> (/\ HasEntry(user_words, get_user_id(users, last'.tg, "none"), last'.word_id)
                        /\ ~HasEntry(user_words', get_user_id(users, last'.tg, "none"), last'.word_id)))]_vars

\* C3: after a cancel received in a state other than idle the user is idle
\* and has neither a pending native term nor an active question.
C3_CancelDiscards ==
    [][(last'.handler = "cancel" /\ Get(user_states, last'.tg, IDLE) # IDLE) =>
         /\ user_states'[last'.tg] = IDLE
         /\ ~Has(temp_data', last'.tg)
         /\ ~Has(quiz_data', last'.tg)]_vars

\* C4: for an identity without a users row every message but /start is
\* answered with the instruction to initialize and changes neither the
\* identity's session nor the store.
C4_UnregisteredRejected ==
    [][(/\ last'.handler \in {"quiz", "add_word", "delete_word", "words_list",
                              "cancel", "messages"}
        /\ UsersByTelegram(users, last'.tg) = {}) =>
         /\ last'.reply = "use_start"
         /\ UNCHANGED <<users, words, user_words, user_states, temp_data, quiz_data>>]_vars

\* C5: the words table holds at most one row per pair compared after
\* lowercasing, and every stored term is lowercased.
C5_WordsUniqueLowercased ==
    /\ \A w1, w2 \in words :
           (Lower(w1.russian_word) = Lower(w2.russian_word)
            /\ Lower(w1.english_word) = Lower(w2.english_word)) => w1 = w2
    /\ \A w \in words :
           Lower(w.russian_word) = w.russian_word /\ Lower(w.english_word) = w.english_word

\* The rows of words with this pair, and whether the user's vocabulary holds
\* one of them, spelled out for the claims.
PairRows(W, ru, en) == {w \in W : w.russian_word = ru /\ w.english_word = en}

OwnsPair(W, UW, uid, ru, en) ==
    \E w \in PairRows(W, ru, en) : \E uw \in UW : uw.user_id = uid /\ uw.word_id = w.id

VocabularySize(UW, uid) == Cardinality({uw \in UW : uw.user_id = uid})

\* No worker thread is inside a handler.
Quiescent == \A p \in Threads : threads[p].pc = "idle"

\* C6: once concurrent add_word calls have returned, the pair they added has
\* exactly one row in words and the user exactly one user_words row for it.
C6_OneRowPerPair ==
    (Quiescent /\ last.handler = "messages" /\ last.reply = "added") =>
        LET w == CHOOSE x \in words : x.id = last.word_id
            rows == PairRows(words, w.russian_word, w.english_word)
        IN  /\ Cardinality(rows) = 1
            /\ Cardinality({uw \in user_words :
                               uw.user_id = LastUser /\ \E x \in rows : x.id = uw.word_id}) = 1

\* C7: add_word for a pair the user does not own adds exactly one row to the
\* user's vocabulary and leaves the pair owned, with one words row; add_word
\* repeated for an owned pair creates no words row and no user_words row,
\* succeeds, and returns the same total.
C7_AddWordIdempotent ==
    [][(last'.handler = "messages" /\ last'.reply \in {"added", "add_failed"}) =>
         LET uid == get_user_id(users, last'.tg, "none")
             ru == temp_data[last'.tg].russian
             en == Normalize(last'.text)
         IN  /\ last'.ok
             /\ last'.count = VocabularySize(user_words', uid)
             /\ OwnsPair(words', user_words', uid, ru, en)
             /\ Cardinality(PairRows(words', ru, en)) = 1
             /\ IF OwnsPair(words, user_words, uid, ru, en)
                THEN /\ words' = words
                     /\ user_words' = user_words
                     /\ last'.count = VocabularySize(user_words, uid)
                ELSE VocabularySize(user_words', uid) = VocabularySize(user_words, uid) + 1]_vars

\* A word was added again by a user who already owned the pair.
C7_Witness ==
    /\ last.handler = "messages" /\ last.reply = "added" /\ last.had
    /\ last.count = NumSeed + 1

\* C8: after delete_word has completed, the user's word list does not hold
\* the word.
C8_RemovedNotListed ==
    (last.handler = "messages" /\ last.reply = "deleted") =>
        ~(\E w \in get_user_words(words, user_words, LastUser, "none") : w.id = last.word_id)

\* A word of the user's vocabulary was removed while the user still owns
\* other words.
C8_Witness ==
    /\ last.handler = "messages" /\ last.reply = "deleted" /\ last.had
    /\ get_user_words(words, user_words, LastUser, "none") # {}

\* C9: delete_word changes nothing but the user_words row of the user for
\* the word: users, words and every other user_words row stay as they were.
C9_DeleteFrame ==
    [][(last'.handler = "messages" /\ last'.reply \in {"deleted", "delete_failed"}) =>
         /\ users' = users
         /\ words' = words
         /\ user_words' \subseteq user_words
         /\ \A uw \in user_words \ user_words' :
                /\ uw.user_id = get_user_id(users, last'.tg, "none")
                /\ uw.word_id = last'.word_id]_vars

\* A user removed a word that another user owns, with an answer counted.
C9_Witness ==
    /\ last.handler = "messages" /\ last.reply = "deleted" /\ last.had
    /\ \E uw \in user_words :
           uw.word_id = last.word_id /\ uw.user_id # LastUser /\ uw.attempt_count > 0

\* C10: a users row is created only together with a user_words row for every
\* common word.
C10_CreatedEnrolled ==
    [][\A t \in TelegramIds :
         (UsersByTelegram(users, t) = {} /\ UsersByTelegram(users', t) # {}) =>
             \A w \in words' : w.is_common =>
                 \E u \in users', uw \in user_words' :
                     u.telegram_id = t /\ uw.user_id = u.id /\ uw.word_id = w.id]_vars

\* C11: once concurrent calls of register_user have returned, every identity
\* has at most one users row, and a registered user has exactly one
\* user_words row for every common word.
C11_OneUserEnrolledOnce ==
    Quiescent =>
        \A t \in TelegramIds :
            /\ Cardinality({u \in users : u.telegram_id = t}) <= 1
            /\ \A u \in users : u.telegram_id = t =>
                   \A w \in words : w.is_common =>
                       Cardinality({uw \in user_words :
                                       uw.user_id = u.id /\ uw.word_id = w.id}) = 1

\* C12: a handler other than /start adds no users row, and every user_words
\* row it adds belongs to the users row of the identity that sent the message.
C12_OnlyStartCreatesUsers ==
    [][last'.handler # "start" =>
         /\ users' = users
         /\ \A uw \in user_words' \ user_words :
                \E u \in users : u.telegram_id = last'.tg /\ u.id = uw.user_id]_vars
C12_Witness ==
    /\ last.handler = "messages" /\ last.reply = "use_start"
    /\ users = {}
    /\ Get(user_states, last.tg, IDLE) = ADDING_WORD_RUSSIAN

\* C13: a quiz requested in state IDLE by a registered user who has no words
\* is answered "no words", leaves the state IDLE and leaves the user without
\* a recorded question.
C13_EmptyVocabularyQuiz ==
    [][(/\ last'.handler = "quiz"
        /\ \E u \in users : u.telegram_id = last'.tg /\ VocabularySize(user_words, u.id) = 0
        /\ Get(user_states, last'.tg, IDLE) = IDLE) =>
           /\ last'.reply = "no_words"
           /\ Get(user_states', last'.tg, IDLE) = IDLE
           /\ ~Has(quiz_data', last'.tg)]_vars

\* C14: an answer to a recorded question is scored, and it is scored correct
\* exactly when the text, trimmed and lowercased, equals the lowercased
\* english_word of the word asked.
C14_ScoredByNormalizedEquality ==
    [][(/\ last'.handler = "messages"
        /\ UsersByTelegram(users, last'.tg) # {}
        /\ Get(user_states, last'.tg, IDLE) = QUIZ
        /\ Has(quiz_data, last'.tg)) =>
           LET w == CHOOSE x \in words : x.id = quiz_data[last'.tg]
           IN  /\ last'.reply \in {"correct", "wrong"}
               /\ (last'.reply = "correct") <=> (Lower(Strip(last'.text)) = Lower(w.english_word))
               /\ last'.ok <=> (last'.reply = "correct")]_vars
C14_Witness ==
    /\ last.handler = "messages" /\ last.reply = "correct"
    /\ last.text = <<" ", "I">>
    /\ \E w \in words : w.id = last.word_id /\ w.english_word = <<"I">>

\* The user_words rows whose counters a step changes.
Rescored == {uw \in user_words : \E x \in user_words' :
                 /\ x.user_id = uw.user_id /\ x.word_id = uw.word_id
                 /\ <<x.attempt_count, x.correct_count>> # <<uw.attempt_count, uw.correct_count>>}

\* C15: a scored answer adds 1 to attempt_count of the row (user, word asked),
\* adds 1 to its correct_count exactly when the answer is correct, and changes
\* no other row; counters change only in a step that uses up a recorded
\* question, and a question is recorded only by a quiz start that asks one.
C15_OneAttemptPerQuestion ==
    [][/\ (last'.handler = "messages" /\ last'.reply \in {"correct", "wrong"}) =>
           \E u \in users :
               /\ u.telegram_id = last'.tg
               /\ Has(quiz_data, last'.tg)
               /\ \E uw \in user_words : uw.user_id = u.id /\ uw.word_id = quiz_data[last'.tg]
               /\ user_words' =
                      {IF uw.user_id = u.id /\ uw.word_id = quiz_data[last'.tg]
                       THEN [user_id |-> uw.user_id, word_id |-> uw.word_id,
                             attempt_count |-> uw.attempt_count + 1,
                             correct_count |-> uw.correct_count
                                               + (IF last'.reply = "correct" THEN 1 ELSE 0)]
                       ELSE uw : uw \in user_words}
       /\ Rescored # {} =>
              /\ last'.handler = "messages" /\ last'.reply \in {"correct", "wrong"}
              /\ Has(quiz_data, last'.tg) /\ ~Has(quiz_data', last'.tg)
       /\ \A t \in TelegramIds :
              (Has(quiz_data', t) /\ Get(quiz_data, t, None) # quiz_data'[t]) =>
                  last'.handler = "quiz" /\ last'.reply = "question" /\ last'.tg = t]_vars
C15_Witness ==
    /\ last.handler = "messages" /\ last.reply = "wrong"
    /\ \E uw \in user_words : uw.word_id = last.word_id /\ uw.attempt_count = 1 /\ uw.correct_count = 0
    /\ \E uw \in user_words : uw.word_id # last.word_id /\ uw.user_id = LastUser /\ uw.attempt_count = 0

\* C16: every user_words row has 0 <= correct_count <= attempt_count.
C16_CorrectWithinAttempts ==
    \A uw \in user_words : 0 <= uw.correct_count /\ uw.correct_count <= uw.attempt_count
C16_Witness ==
    /\ \E uw \in user_words : uw.attempt_count = 1 /\ uw.correct_count = 1
    /\ last.handler = "messages" /\ last.reply = "correct"

TermsAvailable(uid) ==
    {w.english_word : w \in words}
    \cup {w.english_word : w \in {x \in words : \E uw \in user_words :
                                              uw.user_id = uid /\ uw.word_id = x.id}}
MinOf(a, b) == IF a < b THEN a ELSE b

\* C18: a question offers min(4, number of distinct terms available) answers.
C18_OptionCount ==
    (last.handler = "quiz" /\ last.reply = "question") =>
        \E u \in users :
            /\ u.telegram_id = last.tg
            /\ Cardinality(last.options) = MinOf(4, Cardinality(TermsAvailable(u.id)))

\* C19: a quiz start that asks a question records its word as the one
\* question of the user, replacing any recorded before, and changes no
\* counters; the recorded word changes in no other way until it is scored,
\* and a scored answer is compared with, and counted for, the recorded word.
C19_LatestQuestionScored ==
    [][/\ (last'.handler = "quiz" /\ last'.reply = "question") =>
              /\ quiz_data' = [x \in (DOMAIN quiz_data) \cup {last'.tg} |->
                                  IF x = last'.tg THEN last'.word_id ELSE quiz_data[x]]
              /\ user_words' = user_words
       /\ \A t \in DOMAIN quiz_data :
              (~Has(quiz_data', t) \/ quiz_data'[t] # quiz_data[t]) =>
                  /\ last'.tg = t
                  /\ \/ last'.handler = "quiz" /\ last'.reply = "question"
                     \/ last'.handler = "messages" /\ last'.reply \in {"correct", "wrong"}
       /\ (last'.handler = "messages" /\ last'.reply \in {"correct", "wrong"}) =>
              /\ last'.word_id = quiz_data[last'.tg]
              /\ \A uw \in Rescored : uw.word_id = quiz_data[last'.tg]
              /\ (last'.reply = "correct") <=>
                     (Lower(Strip(last'.text))
                        = Lower((CHOOSE w \in words : w.id = quiz_data[last'.tg]).english_word))]_vars
C19_Witness ==
    /\ last.handler = "quiz" /\ last.reply = "question" /\ last.had
    /\ quiz_data[last.tg] = last.word_id

\* C20: /start of an identity never seen before leaves state IDLE and one
\* user_words row per common word; the add-word button then leads to
\* ADDING_WORD_RUSSIAN, a text N to ADDING_WORD_ENGLISH with N trimmed and
\* lowercased kept as the pending term, and a text T, for a pair not in the
\* words table, back to IDLE with one new words row (N, T), one new user_words
\* row for it, and a reported count one above the count before; the two steps
\* in between change no table.
C20_AddWordDialogue ==
    [][\A t \in TelegramIds :
         (last'.tg = t /\ last'.fault = "none") =>
           /\ (last'.handler = "start" /\ UsersByTelegram(users, t) = {}) =>
                  /\ user_states'[t] = IDLE
                  /\ \E u \in users' :
                         /\ u.telegram_id = t
                         /\ VocabularySize(user_words', u.id)
                                = Cardinality({w \in words : w.is_common})
           /\ (last'.handler = "add_word" /\ UsersByTelegram(users, t) # {}) =>
                  /\ user_states'[t] = ADDING_WORD_RUSSIAN
                  /\ UNCHANGED <<users, words, user_words>>
           /\ (/\ last'.handler = "messages" /\ UsersByTelegram(users, t) # {}
               /\ Get(user_states, t, IDLE) = ADDING_WORD_RUSSIAN) =>
                  /\ user_states'[t] = ADDING_WORD_ENGLISH
                  /\ temp_data'[t].russian = Lower(Strip(last'.text))
                  /\ UNCHANGED <<users, words, user_words>>
           /\ (/\ last'.handler = "messages" /\ UsersByTelegram(users, t) # {}
               /\ Get(user_states, t, IDLE) = ADDING_WORD_ENGLISH /\ Has(temp_data, t)
               /\ PairRows(words, temp_data[t].russian, Lower(Strip(last'.text))) = {}) =>
                  \E u \in users, w \in words' \ words :
                      /\ u.telegram_id = t
                      /\ user_states'[t] = IDLE
                      /\ last'.reply = "added"
                      /\ words' = words \cup {w}
                      /\ w.russian_word = temp_data[t].russian
                      /\ w.english_word = Lower(Strip(last'.text))
                      /\ user_words' = user_words \cup
                             {[user_id |-> u.id, word_id |-> w.id,
                               correct_count |-> 0, attempt_count |-> 0]}
                      /\ last'.count = VocabularySize(user_words, u.id) + 1]_vars
C20_Witness ==
    /\ last.handler = "messages" /\ last.reply = "added" /\ ~last.had
    /\ last.count = NumSeed + 1
    /\ user_states[last.tg] = IDLE
    /\ last.text = <<" ", "I">>
    /\ \E w \in words : w.id = last.word_id /\ ~w.is_common /\ w.english_word = <<"i">>

\* C21: in state DELETING_WORD a text that names no word of the user's
\* vocabulary is answered with the prompt to pick from the list, leaves the
\* state DELETING_WORD and changes no user_words row.
C21_InvalidSelection ==
    [][(/\ last'.handler = "messages"
        /\ Get(user_states, last'.tg, IDLE) = DELETING_WORD
        /\ \E u \in users :
               /\ u.telegram_id = last'.tg
               /\ ~(/\ IdMatches(last'.text) # {}
                    /\ \E uw \in user_words :
                           uw.user_id = u.id /\ uw.word_id = MatchId(last'.text))) =>
           /\ last'.reply = "bad_format"
           /\ user_states'[last'.tg] = DELETING_WORD
           /\ user_words' = user_words]_vars

\* C22: a failure of the store during any store access of a handler is caught
\* inside the handler: no handler that met a store failure ends with an
\* exception escaping to the message loop.
C22_StoreFailureCaught == last.fault # "none" => ~last.raised

\* C23: two handlers of one user exclude each other on the user's session, so
\* no message handler ends in an exception because the other handler removed
\* the pending term it works with.
C23_NoHandlerLosesScratch == ~(last.handler = "messages" /\ last.raised)

\* C24: when handlers of different identities run at the same time, each fetch
\* returns the result of the handler's own query: a user id a handler has
\* fetched is the id of the users row of the identity it handles.
C24_OwnQueryResult ==
    \A p \in Threads :
        threads[p].user_id # None =>
            \E u \in users : u.id = threads[p].user_id /\ u.telegram_id = threads[p].tg

\* C25: the counters of a user_words row that exists before and after a
\* handler are changed only by the scoring of a quiz answer: every handler
\* other than a message handled in state QUIZ leaves them as they were.
C25_CountersOnlyScored ==
    [][~(last'.handler = "messages" /\ Get(user_states, last'.tg, IDLE) = QUIZ) =>
           Rescored = {}]_vars
C25_Witness ==
    /\ last.handler = "messages" /\ last.reply = "added" /\ last.had
    /\ \E uw \in user_words :
           uw.user_id = LastUser /\ uw.word_id = last.word_id /\ uw.attempt_count = 1

\* C26: a text handled in state ADDING_WORD_ENGLISH by a registered user with
\* a pending term is passed to add_word together with that term, trimmed and
\* lowercased, the tables and the reply are an outcome of that call, and
\* afterwards, whether add_word succeeded or failed, the state is IDLE and the
\* user has no pending term.
C26_TargetTermAdds ==
    [][(/\ last'.handler = "messages"
        /\ Get(user_states, last'.tg, IDLE) = ADDING_WORD_ENGLISH
        /\ Has(temp_data, last'.tg)
        /\ last'.fault # "get_user_id"
        /\ UsersByTelegram(users, last'.tg) # {}) =>
           /\ user_states'[last'.tg] = IDLE
           /\ last'.tg \notin DOMAIN temp_data'
           /\ \E u \in UsersByTelegram(users, last'.tg) :
                  \E r \in add_word(words, user_words, u.id, temp_data[last'.tg].russian,
                                    Lower(Strip(last'.text)), last'.fault) :
                      /\ words' = r.words
                      /\ user_words' = r.user_words
                      /\ last'.ok = r.ok
                      /\ last'.reply = IF r.ok THEN "added" ELSE "add_failed"]_vars
C26_Witness ==
    /\ last.handler = "messages" /\ last.reply = "add_failed"
    /\ last.fault = "add_word.insert_user_word"
    /\ user_states[last.tg] = IDLE
    /\ last.tg \notin DOMAIN temp_data

\* C27: with one handler at a time, an identity in state QUIZ is a registered
\* user with an active question whose word has exactly one user_words row of
\* that user.
C27_QuizWordOwned ==
    \A t \in TelegramIds :
        Get(user_states, t, IDLE) = QUIZ =>
            /\ t \in DOMAIN quiz_data
            /\ \E u \in users :
                   /\ u.telegram_id = t
                   /\ Cardinality({uw \in user_words :
                                      uw.user_id = u.id /\ uw.word_id = quiz_data[t]}) = 1
C27_Witness ==
    /\ last.handler = "quiz" /\ last.reply = "question"
    /\ user_states[last.tg] = QUIZ
    /\ \E uw \in user_words : uw.user_id = LastUser /\ uw.word_id = quiz_data[last.tg]
    /\ Cardinality({uw \in user_words : uw.user_id = LastUser}) < NumSeed

\* C28: with one handler at a time, an identity in state ADDING_WORD_ENGLISH
\* has a pending term in temp_data, and no handler has ended in the KeyError
\* of reading a missing pending term.
C28_PendingTermRecorded ==
    /\ \A t \in TelegramIds :
           Get(user_states, t, IDLE) = ADDING_WORD_ENGLISH => t \in DOMAIN temp_data
    /\ ~last.raised
C28_Witness ==
    /\ last.handler = "messages" /\ last.reply = "ask_english"
    /\ user_states[last.tg] = ADDING_WORD_ENGLISH
    /\ last.tg \in DOMAIN temp_data
    /\ temp_data[last.tg].russian = Lower(Strip(last.text))

\* C29: handling a message of one identity leaves every other identity's
\* conversation state, pending term and active question, and the user_words
\* rows of every other identity's user with their counters, as they were.
C29_SessionsIsolated ==
    [][\A t \in TelegramIds \ {last'.tg} :
           /\ (t \in DOMAIN user_states') = (t \in DOMAIN user_states)
           /\ t \in DOMAIN user_states => user_states'[t] = user_states[t]
           /\ (t \in DOMAIN temp_data') = (t \in DOMAIN temp_data)
           /\ t \in DOMAIN temp_data => temp_data'[t] = temp_data[t]
           /\ (t \in DOMAIN quiz_data') = (t \in DOMAIN quiz_data)
           /\ t \in DOMAIN quiz_data => quiz_data'[t] = quiz_data[t]
           /\ \A u \in users : u.telegram_id = t =>
                  {uw \in user_words' : uw.user_id = u.id}
                      = {uw \in user_words : uw.user_id = u.id}]_vars
C29_Witness ==
    /\ last.tg \in Solo /\ last.handler = "messages" /\ last.reply = "added"
    /\ \E t \in Other :
           /\ Get(user_states, t, IDLE) = ADDING_WORD_ENGLISH
           /\ t \in DOMAIN temp_data
           /\ t \in DOMAIN quiz_data
           /\ \E u \in users : u.telegram_id = t /\ VocabularySize(user_words, u.id) = NumSeed

====
